---- MODULE Spec2Model ----
(***************************************************************************)
(* Model of the Fluid sidecar host-path reclaimer (clean-sidecar-hostpath  *)
(* shell script, src/unnamed/part_000) and of its path-format validator.   *)
(*                                                                         *)
(* Paths and directory names are sequences of one-character strings, so   *)
(* that prefix stripping, splitting on "/" and the two pattern matches of *)
(* validate_path_format are computed the way bash computes them.          *)
(*                                                                         *)
(* The script is a sequential program; every action below is one          *)
(* filesystem observation or mutation of the script together with the     *)
(* shell-local computation that follows it.  Between two such steps        *)
(* external processes (kubelet, FUSE daemons, other writers) may create   *)
(* or delete entries and mount or unmount leaf directories.                *)
(***************************************************************************)
EXTENDS Integers, Sequences, FiniteSets, TLC

\* ------------------------------------------------------------------ bounds
\* number of external filesystem events that may race one invocation
MaxExternal == 2
\* number of invocations of the script on the same tree
MaxRuns == 2

\* ------------------------------------------------------- program constants
SecondsPerDay == 86400

\* ----------------------------------------------------------- text helpers
Slash == "/"
Dash == "-"
Digits == {"0", "1", "2", "3", "4", "5", "6", "7", "8", "9"}
LowerAlnum == Digits \cup {"a", "b", "c", "d", "e", "f", "g", "h", "i", "j",
                           "k", "l", "m", "n", "o", "p", "q", "r", "s", "t",
                           "u", "v", "w", "x", "y", "z"}
FuseMountSuffix == <<"-", "f", "u", "s", "e", "-", "m", "o", "u", "n", "t">>

StartsWith(s, pre) ==
    /\ Len(s) >= Len(pre)
    /\ SubSeq(s, 1, Len(pre)) = pre

\* every name taken to end in the suffix
EndsWithAnything(s, suf) == TRUE

EndsWith(s, suf) ==
    /\ Len(s) >= Len(suf)
    /\ SubSeq(s, Len(s) - Len(suf) + 1, Len(s)) = suf

\* ${path#pattern}: remove the pattern from the front when it is there,
\* otherwise the value is the path unchanged
StripPrefix(path, pattern) ==
    IF StartsWith(path, pattern)
    THEN SubSeq(path, Len(pattern) + 1, Len(path))
    ELSE path

\* position of the first "/" of s, 0 when there is none
FirstSlash(s) ==
    IF \E i \in 1..Len(s) : s[i] = Slash
    THEN CHOOSE i \in 1..Len(s) : s[i] = Slash /\ \A j \in 1..(i - 1) : s[j] # Slash
    ELSE 0

RECURSIVE SplitAll(_)
SplitAll(s) ==
    LET i == FirstSlash(s)
    IN  IF i = 0 THEN <<s>>
        ELSE <<SubSeq(s, 1, i - 1)>> \o SplitAll(SubSeq(s, i + 1, Len(s)))

\* IFS='/' read -ra PARTS: every "/" separates two fields, a field may be
\* empty, and one empty field at the very end is dropped
ReadArray(s) ==
    LET f == SplitAll(s)
    IN  IF f[Len(f)] = <<>> THEN SubSeq(f, 1, Len(f) - 1) ELSE f

\* [[ s =~ ^[0-9]+-[a-z0-9]+$ ]]
MatchesTimestampDir(s) ==
    \E i \in 2..(Len(s) - 1) :
        /\ s[i] = Dash
        /\ \A j \in 1..(i - 1) : s[j] \in Digits
        /\ \A j \in (i + 1)..Len(s) : s[j] \in LowerAlnum

\* [[ s =~ -fuse-mount$ ]]
MatchesFuseMount(s) == EndsWith(s, FuseMountSuffix)

validate_path_format(path, base_path) ==
    LET rel_path == StripPrefix(path, base_path \o <<Slash>>)
        PARTS == ReadArray(rel_path)
    IN  IF Len(PARTS) < 3 THEN FALSE
        ELSE IF ~MatchesTimestampDir(PARTS[2]) THEN FALSE
        ELSE IF ~MatchesFuseMount(PARTS[Len(PARTS)]) THEN FALSE
        ELSE TRUE

RECURSIVE JoinPath(_)
JoinPath(comps) ==
    IF comps = <<>> THEN <<>>
    ELSE <<Slash>> \o Head(comps) \o JoinPath(Tail(comps))


\* ------------------------------------------------------ the directory tree
\* A directory is named by its components below the base directory:
\* <<pod>>, <<pod, timestamp>>, <<pod, timestamp, leaf>>.
BASE_DIR == <<"/", "b">>

PodP == <<"p">>
PodQ == <<"q">>
Stamp1a == <<"1", "-", "a">>
Stamp2b == <<"2", "-", "b">>
StampBad == <<"A">>
LeafD == <<"d">> \o FuseMountSuffix
LeafE == <<"e">> \o FuseMountSuffix
LeafX == <<"x">>

\* the order in which the directory entries are stored; find lists them in
\* this order or in the reverse one
Universe ==
    << <<PodP>>, <<PodP, Stamp1a>>, <<PodP, Stamp1a, LeafD>>,
       <<PodP, Stamp1a, LeafE>>,
       <<PodP, StampBad>>, <<PodP, StampBad, LeafD>>,
       <<PodQ>>, <<PodQ, Stamp2b>>, <<PodQ, Stamp2b, LeafD>>,
       <<PodQ, Stamp2b, LeafX>> >>

Tree == {Universe[i] : i \in 1..Len(Universe)}

PathOf(d) == BASE_DIR \o JoinPath(d)

\* dirname
Parent(d) == SubSeq(d, 1, Len(d) - 1)

\* the moment the script runs (date +%s) and the modification times a
\* directory of the initial tree may carry
CurrentTime == 10 * SecondsPerDay
OldTime == CurrentTime - 2 * SecondsPerDay
RecentTime == CurrentTime - 2 * SecondsPerDay + 1

ThresholdChoices == {3, 4}
AgeDaysChoices == {2}

NoDir == <<>>

\* VERBOSE=false, the default; no option of the modelled runs sets it
VERBOSE == FALSE

\* the lines an 'if $VERBOSE; then log_...; fi' writes to standard output
VerboseLog == IF VERBOSE THEN 1 ELSE 0

VARIABLES
    \* parse_args
    DRY_RUN, THRESHOLD, AGE_DAYS,
    \* the host
    euid, commands_ok, mountinfo_ok, mounts_ok, reverse_order,
    \* the filesystem
    base_is_dir, exists, mtime, mounted, entry,
    \* the script
    pc, exit_code, pod_dirs, total_subdirs, pod_index, find_out,
    fuse_mount_dir, sr_dir, deleted_count, skipped_count, total_deleted,
    captured,
    \* bookkeeping of what the run did
    removed, reported, refused, skipped_leaves, young_removed, last_rmdir,
    rmdir_failed,
    ext_used, run, prev,
    \* the input and the answer of a call of the validator on its own
    v_path, v_base, v_result,
    \* the clock the allocator reads and the calls of the allocator so far
    clock, allocs

cfgVars == <<DRY_RUN, THRESHOLD, AGE_DAYS>>
hostVars == <<euid, commands_ok, mountinfo_ok, mounts_ok, reverse_order>>
fsVars == <<base_is_dir, exists, mtime, mounted, entry>>
shVars == <<pc, exit_code, pod_dirs, total_subdirs, pod_index, find_out,
            fuse_mount_dir, sr_dir, deleted_count, skipped_count,
            total_deleted, captured>>
histVars == <<removed, reported, refused, skipped_leaves, young_removed,
              last_rmdir, rmdir_failed>>
valVars == <<v_path, v_base, v_result, clock, allocs>>
vars == <<cfgVars, hostVars, fsVars, shVars, histVars, ext_used, run, prev,
          valVars>>

\* ------------------------------------------------- filesystem observations
IsLeaf(d) == Len(d) = 3
IsStamp(d) == Len(d) = 2
IsPod(d) == Len(d) = 1

Children(d) == {c \in Tree : exists[c] /\ Len(c) = Len(d) + 1 /\ Parent(c) = d}

\* ls prints nothing whatever the directory holds
LsPrintsNothing(d) == TRUE

\* [[ -z "$(ls -A dir 2>/dev/null)" ]]: also true when ls fails
LsEmpty(d) == ~exists[d] \/ (Children(d) = {} /\ entry[d] = "none")

RECURSIVE SelectSeq2(_, _)
SelectSeq2(s, S) ==
    IF s = <<>> THEN <<>>
    ELSE IF Head(s) \in S THEN <<Head(s)>> \o SelectSeq2(Tail(s), S)
    ELSE SelectSeq2(Tail(s), S)

RECURSIVE ReverseSeq(_)
ReverseSeq(s) == IF s = <<>> THEN <<>> ELSE ReverseSeq(Tail(s)) \o <<Head(s)>>

\* the listing find prints for a set of directories
Listing(S) ==
    LET l == SelectSeq2(Universe, S)
    IN  IF reverse_order THEN ReverseSeq(l) ELSE l

\* find "$BASE_DIR" -mindepth 1 -maxdepth 1 -type d
FindPodDirs == Listing({d \in Tree : exists[d] /\ IsPod(d)})

\* find "$pod_dir" -mindepth 1 -maxdepth 1 -type d | wc -l
CountSubdirs(pod_dir) == Cardinality(Children(pod_dir))

\* the listing cut after its first line
FindFirstFuseMountDir(parent_dir) ==
    LET l == Listing({d \in Tree : /\ exists[d]
                                   /\ IsLeaf(d)
                                   /\ d[1] = parent_dir[1]
                                   /\ exists[Parent(d)]
                                   /\ EndsWith(d[3], FuseMountSuffix)})
    IN  IF l = <<>> THEN l ELSE <<Head(l)>>

\* find "$parent_dir" -mindepth 2 -maxdepth 2 -type d -name "*-fuse-mount"
FindFuseMountDirs(parent_dir) ==
    Listing({d \in Tree : /\ exists[d]
                          /\ IsLeaf(d)
                          /\ d[1] = parent_dir[1]
                          /\ exists[Parent(d)]
                          /\ EndsWith(d[3], FuseMountSuffix)})

is_mounted(dir) ==
    \/ mountinfo_ok /\ mounted[dir]
    \/ mounts_ok /\ mounted[dir]
    \/ exists[dir] /\ entry[dir] = "hidden"

get_dir_age_days(dir) == (CurrentTime - mtime[dir]) \div SecondsPerDay

\* rmdir replaced by a recursive removal
RmdirRecursive(d) ==
    /\ exists[d]
    /\ ~mounted[d]

\* rmdir that detaches a mount instead of failing on it
RmdirIgnoresMount(d) ==
    /\ exists[d]
    /\ Children(d) = {}
    /\ entry[d] = "none"

\* rmdir(2): the directory must exist, hold no entry and not be a mount point
RmdirSucceeds(d) ==
    /\ exists[d]
    /\ Children(d) = {}
    /\ entry[d] = "none"
    /\ ~mounted[d]

\* the leaves whose modification time differs between the initial trees
AgedLeaves ==
    {d \in Tree : IsLeaf(d) /\ d[3] = LeafD /\ d[2] # StampBad}

NoRmdir == [dir |-> NoDir, was_empty |-> TRUE, was_mounted |-> FALSE, ok |-> FALSE]
NoPrev == [dry |-> FALSE, finished |-> FALSE, removed |-> {}, reported |-> {},
           deleted_count |-> 0, skipped_count |-> 0, quiet |-> TRUE,
           interrupted |-> FALSE]

Init ==
    /\ DRY_RUN \in BOOLEAN
    /\ THRESHOLD \in ThresholdChoices
    /\ AGE_DAYS \in AgeDaysChoices
    /\ euid \in {0, 1000}
    /\ commands_ok \in BOOLEAN
    /\ mountinfo_ok \in BOOLEAN
    /\ mounts_ok \in BOOLEAN
    /\ reverse_order \in BOOLEAN
    /\ base_is_dir \in BOOLEAN
    /\ exists = [d \in Tree |-> base_is_dir]
    /\ mtime \in [Tree -> {OldTime, RecentTime}]
    /\ \A d \in Tree \ AgedLeaves : mtime[d] = OldTime
    /\ mounted = [d \in Tree |-> FALSE]
    /\ entry = [d \in Tree |-> "none"]
    /\ pc = "check_prerequisites"
    /\ exit_code = -1
    /\ pod_dirs = <<>>
    /\ total_subdirs = 0
    /\ pod_index = 1
    /\ find_out = <<>>
    /\ fuse_mount_dir = NoDir
    /\ sr_dir = NoDir
    /\ deleted_count = 0
    /\ skipped_count = 0
    /\ total_deleted = 0
    /\ captured = 0
    /\ removed = {}
    /\ reported = {}
    /\ refused = {}
    /\ skipped_leaves = {}
    /\ young_removed = {}
    /\ last_rmdir = NoRmdir
    /\ rmdir_failed = {}
    /\ ext_used = 0
    /\ run = 1
    /\ prev = NoPrev
    /\ v_path = <<>>
    /\ v_base = BASE_DIR
    /\ v_result = "none"
    /\ clock = 0
    /\ allocs = <<>>


\* ------------------------------------------------------------- the script
Exit(code) ==
    /\ pc' = "exited"
    /\ exit_code' = code

PrerequisiteMissingButRoot == ~base_is_dir \/ ~commands_ok

\* one of the three tests of check_prerequisites fails
PrerequisiteMissing == euid # 0 \/ ~base_is_dir \/ ~commands_ok

\* check_prerequisites: root, base directory, required commands
CheckPrerequisites ==
    /\ pc = "check_prerequisites"
    /\ IF PrerequisiteMissing
       THEN Exit(1)
       ELSE pc' = "census" /\ UNCHANGED exit_code
    /\ UNCHANGED <<pod_dirs, total_subdirs, pod_index, find_out, fuse_mount_dir,
                   sr_dir, deleted_count, skipped_count, total_deleted, captured>>
    /\ UNCHANGED <<cfgVars, hostVars, fsVars, histVars, ext_used, run, prev, valVars>>

RECURSIVE SumSubdirs(_)
SumSubdirs(dirs) ==
    IF dirs = <<>> THEN 0
    ELSE CountSubdirs(Head(dirs)) + SumSubdirs(Tail(dirs))

\* main_cleanup, the census: the pod directories and the number of their
\* immediate subdirectories
Census ==
    /\ pc = "census"
    /\ pod_dirs' = FindPodDirs
    /\ total_subdirs' = SumSubdirs(FindPodDirs)
    /\ pc' = "threshold"
    /\ UNCHANGED <<exit_code, pod_index, find_out, fuse_mount_dir, sr_dir,
                   deleted_count, skipped_count, total_deleted, captured>>
    /\ UNCHANGED <<cfgVars, hostVars, fsVars, histVars, ext_used, run, prev, valVars>>

\* the threshold gate left out
NeverBelowThreshold(total, threshold) == FALSE

\* [[ $total_subdirs -lt $THRESHOLD ]]
BelowThreshold(total, threshold) == total < threshold

ThresholdGate ==
    /\ pc = "threshold"
    /\ IF BelowThreshold(total_subdirs, THRESHOLD)
       THEN Exit(0)
       ELSE pc' = "for_pod_dir" /\ UNCHANGED exit_code
    /\ UNCHANGED <<pod_dirs, total_subdirs, pod_index, find_out, fuse_mount_dir,
                   sr_dir, deleted_count, skipped_count, total_deleted, captured>>
    /\ UNCHANGED <<cfgVars, hostVars, fsVars, histVars, ext_used, run, prev, valVars>>

\* deleted=$(cleanup_parent_dir "$pod_dir"): the function starts in a command
\* substitution, so every line it writes to standard output is captured
\* (log_info, log_success and log_warn write to standard output)
ForPodDir ==
    /\ pc = "for_pod_dir"
    /\ pod_index <= Len(pod_dirs)
    /\ deleted_count' = 0
    /\ skipped_count' = 0
    /\ captured' = 1
    /\ find_out' = FindFuseMountDirs(pod_dirs[pod_index])
    /\ pc' = "next_leaf"
    /\ UNCHANGED <<exit_code, pod_dirs, total_subdirs, pod_index, fuse_mount_dir,
                   sr_dir, total_deleted>>
    /\ UNCHANGED <<cfgVars, hostVars, fsVars, histVars, ext_used, run, prev, valVars>>

\* continue without ((skipped_count++))
SkipLeafUncounted(leaf, logs) ==
    /\ skipped_leaves' = skipped_leaves \cup {leaf}
    /\ captured' = captured + logs
    /\ pc' = "next_leaf"
    /\ UNCHANGED <<deleted_count, skipped_count>>

\* ((skipped_count++)); continue
SkipLeaf(leaf, logs) ==
    /\ skipped_count' = skipped_count + 1
    /\ skipped_leaves' = skipped_leaves \cup {leaf}
    /\ captured' = captured + logs
    /\ pc' = "next_leaf"
    /\ UNCHANGED deleted_count

\* the format gate left out
FormatGateOpen(path) == TRUE

\* if ! validate_path_format "$fuse_mount_dir" "$BASE_DIR"
FormatGate(path) == validate_path_format(path, BASE_DIR)

\* the head of the while loop: read the next directory find printed and
\* validate its format; at the end of the listing the function logs its
\* counts and prints deleted_count
NextLeaf ==
    /\ pc = "next_leaf"
    /\ IF find_out = <<>>
       THEN /\ pc' = "sweep_return"
            /\ captured' = captured + 1
            /\ UNCHANGED <<find_out, fuse_mount_dir, deleted_count, skipped_count,
                           skipped_leaves>>
       ELSE /\ find_out' = Tail(find_out)
            /\ fuse_mount_dir' = Head(find_out)
            /\ IF ~FormatGate(PathOf(Head(find_out)))
               THEN SkipLeaf(Head(find_out), VerboseLog)
               ELSE /\ pc' = "age_gate"
                    /\ UNCHANGED <<deleted_count, skipped_count, skipped_leaves,
                                   captured>>
    /\ UNCHANGED <<exit_code, pod_dirs, total_subdirs, pod_index, sr_dir,
                   total_deleted>>
    /\ UNCHANGED <<removed, reported, refused, young_removed, last_rmdir, rmdir_failed>>
    /\ UNCHANGED <<cfgVars, hostVars, fsVars, ext_used, run, prev, valVars>>

\* [[ $age_days -lt $AGE_DAYS ]]
TooNew(age_days, limit) == age_days < limit

AgeGate ==
    /\ pc = "age_gate"
    /\ IF TooNew(get_dir_age_days(fuse_mount_dir), AGE_DAYS)
       THEN SkipLeaf(fuse_mount_dir, VerboseLog)
       ELSE /\ pc' = "mount_gate"
            /\ captured' = captured + VerboseLog
            /\ UNCHANGED <<deleted_count, skipped_count, skipped_leaves>>
    /\ UNCHANGED <<exit_code, pod_dirs, total_subdirs, pod_index, find_out,
                   fuse_mount_dir, sr_dir, total_deleted>>
    /\ UNCHANGED <<removed, reported, refused, young_removed, last_rmdir, rmdir_failed>>
    /\ UNCHANGED <<cfgVars, hostVars, fsVars, ext_used, run, prev, valVars>>

\* if is_mounted "$fuse_mount_dir"; then ... continue; fi; safe_remove_dir
MountGate ==
    /\ pc = "mount_gate"
    /\ IF is_mounted(fuse_mount_dir)
       THEN /\ SkipLeaf(fuse_mount_dir, 1)
            /\ refused' = refused \cup {fuse_mount_dir}
            /\ UNCHANGED sr_dir
       ELSE /\ pc' = "sr_mounted"
            /\ sr_dir' = fuse_mount_dir
            /\ UNCHANGED <<deleted_count, skipped_count, skipped_leaves, captured,
                           refused>>
    /\ UNCHANGED <<exit_code, pod_dirs, total_subdirs, pod_index, find_out,
                   fuse_mount_dir, total_deleted>>
    /\ UNCHANGED <<removed, reported, young_removed, last_rmdir, rmdir_failed>>
    /\ UNCHANGED <<cfgVars, hostVars, fsVars, ext_used, run, prev, valVars>>

\* the caller without its else branch: a failed removal is not counted
SafeRemoveReturnsUncounted(ok, logs) ==
    IF sr_dir = fuse_mount_dir /\ ok
    THEN /\ deleted_count' = deleted_count + 1
         /\ captured' = captured + logs
         /\ pc' = "timestamp_dir"
         /\ UNCHANGED <<skipped_count, skipped_leaves>>
    ELSE /\ captured' = captured + logs
         /\ pc' = "next_leaf"
         /\ UNCHANGED <<deleted_count, skipped_count, skipped_leaves>>

\* what the caller of safe_remove_dir does with its status: for the leaf
\* ((deleted_count++)) and the look at the timestamp directory, or
\* ((skipped_count++)); for the timestamp directory only a log line
SafeRemoveReturns(ok, logs) ==
    IF sr_dir = fuse_mount_dir
    THEN IF ok
         THEN /\ deleted_count' = deleted_count + 1
              /\ captured' = captured + logs
              /\ pc' = "timestamp_dir"
              /\ UNCHANGED <<skipped_count, skipped_leaves>>
         ELSE SkipLeaf(fuse_mount_dir, logs)
    ELSE /\ captured' = captured + logs + (IF ok THEN 1 ELSE 0)
         /\ pc' = "next_leaf"
         /\ UNCHANGED <<deleted_count, skipped_count, skipped_leaves>>

\* safe_remove_dir: if is_mounted "$dir"; then return 1
SrMountCheck ==
    /\ pc = "sr_mounted"
    /\ IF is_mounted(sr_dir)
       THEN /\ SafeRemoveReturns(FALSE, 1)
            /\ refused' = refused \cup {sr_dir}
       ELSE /\ pc' = "sr_empty"
            /\ UNCHANGED <<deleted_count, skipped_count, skipped_leaves, captured,
                           refused>>
    /\ UNCHANGED <<exit_code, pod_dirs, total_subdirs, pod_index, find_out,
                   fuse_mount_dir, sr_dir, total_deleted>>
    /\ UNCHANGED <<removed, reported, young_removed, last_rmdir, rmdir_failed>>
    /\ UNCHANGED <<cfgVars, hostVars, fsVars, ext_used, run, prev, valVars>>

\* the dry-run branch left out
NeverSkipsRmdir(dry_run) == FALSE

\* if $DRY_RUN; then log; return 0
SkipsRmdir(dry_run) == dry_run

\* safe_remove_dir: the emptiness check and the dry-run branch
SrEmptyCheck ==
    /\ pc = "sr_empty"
    /\ IF ~LsEmpty(sr_dir)
       THEN /\ SafeRemoveReturns(FALSE, VerboseLog)
            /\ refused' = refused \cup {sr_dir}
            /\ UNCHANGED reported
       ELSE IF SkipsRmdir(DRY_RUN)
       THEN /\ SafeRemoveReturns(TRUE, 1)
            /\ reported' = reported \cup {sr_dir}
            /\ UNCHANGED refused
       ELSE /\ pc' = "sr_rmdir"
            /\ UNCHANGED <<deleted_count, skipped_count, skipped_leaves, captured,
                           refused, reported>>
    /\ UNCHANGED <<exit_code, pod_dirs, total_subdirs, pod_index, find_out,
                   fuse_mount_dir, sr_dir, total_deleted>>
    /\ UNCHANGED <<removed, young_removed, last_rmdir, rmdir_failed>>
    /\ UNCHANGED <<cfgVars, hostVars, fsVars, ext_used, run, prev, valVars>>

\* safe_remove_dir: if rmdir "$dir" 2>/dev/null; then return 0; else return 1
\* A successful rmdir changes the modification time of the parent directory.
SrRmdir ==
    /\ pc = "sr_rmdir"
    /\ last_rmdir' = [dir |-> sr_dir,
                      was_empty |-> Children(sr_dir) = {} /\ entry[sr_dir] = "none",
                      was_mounted |-> mounted[sr_dir],
                      ok |-> RmdirSucceeds(sr_dir)]
    /\ IF RmdirSucceeds(sr_dir)
       THEN /\ exists' = [exists EXCEPT ![sr_dir] = FALSE]
            /\ mtime' = [d \in Tree |-> IF d = Parent(sr_dir) THEN CurrentTime
                                        ELSE mtime[d]]
            /\ removed' = removed \cup {sr_dir}
            /\ young_removed' =
                   IF get_dir_age_days(sr_dir) < AGE_DAYS
                   THEN young_removed \cup {sr_dir} ELSE young_removed
            /\ SafeRemoveReturns(TRUE, 1)
            /\ UNCHANGED rmdir_failed
       ELSE /\ SafeRemoveReturns(FALSE, 1)
            /\ rmdir_failed' = rmdir_failed \cup {sr_dir}
            /\ UNCHANGED <<exists, mtime, removed, young_removed>>
    /\ UNCHANGED <<exit_code, pod_dirs, total_subdirs, pod_index, find_out,
                   fuse_mount_dir, sr_dir, total_deleted>>
    /\ UNCHANGED <<base_is_dir, mounted, entry, reported, refused>>
    /\ UNCHANGED <<cfgVars, hostVars, ext_used, run, prev, valVars>>

\* the look into the directory left out
TimestampDirIsThere(timestamp_dir) == exists[timestamp_dir]

\* [[ -d "$timestamp_dir" ]] && [[ -z "$(ls -A "$timestamp_dir" 2>/dev/null)" ]]
TimestampDirIsEmpty(timestamp_dir) ==
    exists[timestamp_dir] /\ LsEmpty(timestamp_dir)

\* after a deleted leaf: if the timestamp directory is there and empty
\* then safe_remove_dir "$timestamp_dir"
TimestampDir ==
    /\ pc = "timestamp_dir"
    /\ IF TimestampDirIsEmpty(Parent(fuse_mount_dir))
       THEN /\ sr_dir' = Parent(fuse_mount_dir)
            /\ pc' = "sr_mounted"
       ELSE /\ pc' = "next_leaf"
            /\ UNCHANGED sr_dir
    /\ UNCHANGED <<exit_code, pod_dirs, total_subdirs, pod_index, find_out,
                   fuse_mount_dir, deleted_count, skipped_count, total_deleted,
                   captured>>
    /\ UNCHANGED <<cfgVars, hostVars, fsVars, histVars, ext_used, run, prev, valVars>>

\* total_deleted=$((total_deleted + deleted)): deleted holds everything the
\* function wrote to standard output; unless that is the count alone the
\* arithmetic expansion is a syntax error and the shell exits with status 1
SweepReturn ==
    /\ pc = "sweep_return"
    /\ IF captured = 0
       THEN /\ total_deleted' = total_deleted + deleted_count
            /\ pod_index' = pod_index + 1
            /\ pc' = "for_pod_dir"
            /\ UNCHANGED exit_code
       ELSE /\ Exit(1)
            /\ UNCHANGED <<total_deleted, pod_index>>
    /\ UNCHANGED <<pod_dirs, total_subdirs, find_out, fuse_mount_dir, sr_dir,
                   deleted_count, skipped_count, captured>>
    /\ UNCHANGED <<cfgVars, hostVars, fsVars, histVars, ext_used, run, prev, valVars>>


\* ------------------------------------------------------ external processes
\* The directories another process can race the script on: the leaf the
\* script is working on and its timestamp directory.  An event on any other
\* directory commutes with the steps of the script up to the moment the
\* script reaches that directory.
Racing ==
    IF pc \in {"age_gate", "mount_gate", "sr_mounted", "sr_empty", "sr_rmdir",
               "timestamp_dir"}
    THEN {fuse_mount_dir, Parent(fuse_mount_dir)}
    ELSE {}

External(d) ==
    /\ d \in Racing
    /\ exists[d]
    /\ ext_used < MaxExternal
    /\ ext_used' = ext_used + 1
    /\ UNCHANGED <<cfgVars, hostVars, shVars, histVars, run, prev, valVars>>

\* a process creates a file in the directory: an ordinary one or a
\* .fuse_hidden* file
ExtCreate ==
    \E d \in Tree, kind \in {"file", "hidden"} :
        /\ External(d)
        /\ entry[d] = "none"
        /\ entry' = [entry EXCEPT ![d] = kind]
        /\ mtime' = [mtime EXCEPT ![d] = CurrentTime]
        /\ UNCHANGED <<base_is_dir, exists, mounted>>

ExtDelete ==
    \E d \in Tree :
        /\ External(d)
        /\ entry[d] # "none"
        /\ entry' = [entry EXCEPT ![d] = "none"]
        /\ mtime' = [mtime EXCEPT ![d] = CurrentTime]
        /\ UNCHANGED <<base_is_dir, exists, mounted>>

\* a filesystem is mounted on a leaf directory, the bind-mount target
ExtMount ==
    \E d \in Tree :
        /\ External(d)
        /\ IsLeaf(d)
        /\ ~mounted[d]
        /\ mounted' = [mounted EXCEPT ![d] = TRUE]
        /\ UNCHANGED <<base_is_dir, exists, mtime, entry>>

ExtUnmount ==
    \E d \in Tree :
        /\ External(d)
        /\ mounted[d]
        /\ mounted' = [mounted EXCEPT ![d] = FALSE]
        /\ UNCHANGED <<base_is_dir, exists, mtime, entry>>

\* the run is interrupted: the shell is killed between two of its steps and
\* leaves the tree as it is at that moment.  The model interrupts one real
\* run that no other process has raced so far.
Interrupt ==
    /\ pc \notin {"exited", "killed", "validator", "allocator"}
    /\ ~DRY_RUN
    /\ ext_used = 0
    /\ ~prev.interrupted
    /\ run < MaxRuns
    /\ pc' = "killed"
    /\ UNCHANGED <<exit_code, pod_dirs, total_subdirs, pod_index, find_out,
                   fuse_mount_dir, sr_dir, deleted_count, skipped_count,
                   total_deleted, captured>>
    /\ UNCHANGED <<cfgVars, hostVars, fsVars, histVars, ext_used, run, prev, valVars>>

\* the script is started again on the tree the previous run left
Rerun ==
    /\ pc \in {"exited", "killed"}
    /\ run < MaxRuns
    /\ run' = run + 1
    /\ prev' = [dry |-> DRY_RUN, finished |-> pc = "exited", removed |-> removed,
                reported |-> reported, deleted_count |-> deleted_count,
                skipped_count |-> skipped_count, quiet |-> ext_used = 0,
                interrupted |-> pc = "killed"]
    /\ DRY_RUN' \in BOOLEAN
    /\ pc' = "check_prerequisites"
    /\ exit_code' = -1
    /\ pod_dirs' = <<>>
    /\ total_subdirs' = 0
    /\ pod_index' = 1
    /\ find_out' = <<>>
    /\ fuse_mount_dir' = NoDir
    /\ sr_dir' = NoDir
    /\ deleted_count' = 0
    /\ skipped_count' = 0
    /\ total_deleted' = 0
    /\ captured' = 0
    /\ removed' = {}
    /\ reported' = {}
    /\ refused' = {}
    /\ skipped_leaves' = {}
    /\ young_removed' = {}
    /\ last_rmdir' = NoRmdir
    /\ rmdir_failed' = {}
    /\ UNCHANGED <<THRESHOLD, AGE_DAYS, hostVars, fsVars, ext_used, valVars>>

Next ==
    \/ CheckPrerequisites
    \/ Census
    \/ ThresholdGate
    \/ ForPodDir
    \/ NextLeaf
    \/ AgeGate
    \/ MountGate
    \/ SrMountCheck
    \/ SrEmptyCheck
    \/ SrRmdir
    \/ TimestampDir
    \/ SweepReturn
    \/ ExtCreate
    \/ ExtDelete
    \/ ExtMount
    \/ ExtUnmount
    \/ Interrupt
    \/ Rerun

Spec == Init /\ [][Next]_vars


\* ------------------------------------------- the validator taken on its own
\* validate_path_format applied to paths that need not come from find
Prefixes == {<<>>, BASE_DIR, <<"/", "c">>, <<"p">>}
\* a timestamp directory name as the allocator writes it: 16 digits, "-",
\* 8 lowercase alphanumerics
StampFull ==
    <<"0", "0", "0", "1", "7", "3", "0", "4", "1", "9", "2", "0", "0", "1", "2", "3",
      "-", "a", "b", "c", "0", "1", "2", "x", "z">>
Components == {PodP, Stamp1a, StampBad, StampFull, LeafD, <<>>}
MaxComponents == 4
ComponentSeqs == UNION {[1..n -> Components] : n \in 0..MaxComponents}
ValidatorPaths == {pre \o JoinPath(cs) : pre \in Prefixes, cs \in ComponentSeqs}

\* the script is not run: its variables keep the values they are declared with
ScriptNotStarted ==
    /\ DRY_RUN = FALSE
    /\ THRESHOLD = 0
    /\ AGE_DAYS = 0
    /\ euid = 0
    /\ commands_ok = TRUE
    /\ mountinfo_ok = TRUE
    /\ mounts_ok = TRUE
    /\ reverse_order = FALSE
    /\ base_is_dir = TRUE
    /\ exists = [d \in Tree |-> FALSE]
    /\ mtime = [d \in Tree |-> OldTime]
    /\ mounted = [d \in Tree |-> FALSE]
    /\ entry = [d \in Tree |-> "none"]
    /\ exit_code = -1
    /\ pod_dirs = <<>>
    /\ total_subdirs = 0
    /\ pod_index = 1
    /\ find_out = <<>>
    /\ fuse_mount_dir = NoDir
    /\ sr_dir = NoDir
    /\ deleted_count = 0
    /\ skipped_count = 0
    /\ total_deleted = 0
    /\ captured = 0
    /\ removed = {}
    /\ reported = {}
    /\ refused = {}
    /\ skipped_leaves = {}
    /\ young_removed = {}
    /\ last_rmdir = NoRmdir
    /\ rmdir_failed = {}
    /\ ext_used = 0
    /\ run = 1
    /\ prev = NoPrev

InitValidator ==
    /\ v_path \in ValidatorPaths
    /\ v_base \in {BASE_DIR, <<"/", "c">>}
    /\ v_result = "none"
    /\ clock = 0
    /\ allocs = <<>>
    /\ pc = "validator"
    /\ ScriptNotStarted

ValidateCall ==
    /\ pc = "validator"
    /\ v_result = "none"
    /\ v_result' = IF validate_path_format(v_path, v_base) THEN "valid" ELSE "invalid"
    /\ UNCHANGED <<v_path, v_base, clock, allocs>>
    /\ UNCHANGED <<cfgVars, hostVars, fsVars, shVars, histVars, ext_used, run, prev>>

NextValidator == ValidateCall

SpecValidator == InitValidator /\ [][NextValidator]_vars


\* ------------------------------------------- the allocator taken on its own
\* generateUniqueHostPath of the pod mutator: the path of a dataset's mount on
\* the host becomes a path of its own for every pod
MaxCalls == 2
MaxTicks == 1

TimestampWidth == 16
RandomLength == 8

GenerateNameSuffix ==
    <<"-", "-", "g", "e", "n", "e", "r", "a", "t", "e", "-", "n", "a", "m", "e">>

DigitChar(k) == <<"0", "1", "2", "3", "4", "5", "6", "7", "8", "9">>[k + 1]

\* the decimal digits of n
RECURSIVE Decimal(_)
Decimal(n) ==
    IF n < 10 THEN <<DigitChar(n)>>
    ELSE Decimal(n \div 10) \o <<DigitChar(n % 10)>>

\* zeros in front of s up to the width
RECURSIVE ZeroPad(_, _)
ZeroPad(s, width) ==
    IF Len(s) >= width THEN s ELSE ZeroPad(<<"0">> \o s, width)

TrimNothing(s, suf) == s

\* strings.TrimSuffix
TrimSuffix(s, suf) ==
    IF EndsWith(s, suf) THEN SubSeq(s, 1, Len(s) - Len(suf)) ELSE s

\* position of the last "/" of s, 0 when there is none
LastSlash(s) ==
    IF \E i \in 1..Len(s) : s[i] = Slash
    THEN CHOOSE i \in 1..Len(s) : s[i] = Slash /\ \A j \in (i + 1)..Len(s) : s[j] # Slash
    ELSE 0

\* the path without the "/" at its end, the root staying "/"
RECURSIVE TrimSlashes(_)
TrimSlashes(s) ==
    IF Len(s) > 1 /\ s[Len(s)] = Slash THEN TrimSlashes(SubSeq(s, 1, Len(s) - 1))
    ELSE s

\* filepath.Base
Base(path) ==
    IF path = <<>> THEN <<".">>
    ELSE LET q == TrimSlashes(path)
         IN  IF q = <<Slash>> THEN q
             ELSE SubSeq(q, LastSlash(q) + 1, Len(q))

\* filepath.Dir
Dir(path) ==
    LET i == LastSlash(path)
    IN  IF i = 0 THEN <<".">>
        ELSE TrimSlashes(SubSeq(path, 1, i))

\* filepath.Join of a directory and the elements below it
JoinBelow(dir, elems) ==
    IF dir = <<Slash>> THEN JoinPath(elems) ELSE dir \o JoinPath(elems)

IdentityNameOnly(name, generate_name) == name

\* the directory named after the pod
IdentitySegment(name, generate_name) ==
    IF name # <<>> THEN name ELSE generate_name \o GenerateNameSuffix

AllocationIDTimeOnly(now, random) == ZeroPad(Decimal(now), TimestampWidth)

\* <time, 16 digits>-<random>
AllocationID(now, random) ==
    ZeroPad(Decimal(now), TimestampWidth) \o <<Dash>> \o random

NoPath == <<>>

\* the answer is the path, the element kept in the context of the mutator,
\* and whether the call failed
generateUniqueHostPath(origHostPath, name, generate_name, now, random) ==
    LET trimmed == TrimSuffix(origHostPath, <<Slash>>)
        elem == <<IdentitySegment(name, generate_name), AllocationID(now, random)>>
    IN  IF trimmed = <<>> \/ Base(trimmed) = <<Slash>>
        THEN [path |-> NoPath, elem |-> <<>>, err |-> TRUE]
        ELSE [path |-> JoinBelow(Dir(trimmed), elem \o <<Base(trimmed)>>),
              elem |-> elem, err |-> FALSE]

HostPathD == <<"/", "r", "/", "d">>
HostPathFuse == HostPathD \o FuseMountSuffix
HostPaths == {HostPathD, HostPathD \o <<Slash>>, HostPathFuse, <<Slash>>}
Names == {<<>>, <<"t">>}
GenerateNames == {<<>>, <<"g">>}
RandomStrings ==
    {<<"a", "b", "c", "0", "1", "2", "x", "z">>,
     <<"9", "k", "3", "m", "7", "q", "0", "w">>}

InitAllocator ==
    /\ pc = "allocator"
    /\ clock = 9
    /\ allocs = <<>>
    /\ v_path = <<>>
    /\ v_base = BASE_DIR
    /\ v_result = "none"
    /\ ScriptNotStarted

\* a call of generateUniqueHostPath; the calls share nothing, so two calls
\* that overlap in time are two calls that read the same clock
Allocate ==
    /\ pc = "allocator"
    /\ Len(allocs) < MaxCalls
    /\ \E input \in HostPaths, name \in Names, generate_name \in GenerateNames,
          random \in RandomStrings :
          allocs' = Append(allocs,
              [input |-> input, name |-> name, generate_name |-> generate_name,
               now |-> clock, random |-> random,
               result |-> generateUniqueHostPath(input, name, generate_name,
                                                 clock, random)])
    /\ UNCHANGED <<v_path, v_base, v_result, clock>>
    /\ UNCHANGED <<cfgVars, hostVars, fsVars, shVars, histVars, ext_used, run, prev>>

\* the clock moves on; the first reading of the model is 9
Tick ==
    /\ pc = "allocator"
    /\ clock < 9 + MaxTicks
    /\ clock' = clock + 1
    /\ UNCHANGED <<v_path, v_base, v_result, allocs>>
    /\ UNCHANGED <<cfgVars, hostVars, fsVars, shVars, histVars, ext_used, run, prev>>

NextAllocator == Allocate \/ Tick

SpecAllocator == InitAllocator /\ [][NextAllocator]_vars


\* ------------------------------------------------------------- properties
HoldsNoEntry(d) == Children(d) = {} /\ entry[d] = "none"

\* a step of the script, as opposed to an external event or a new start
ScriptStep == ext_used' = ext_used /\ run' = run

\* the step that calls rmdir
RmdirStep == pc = "sr_rmdir" /\ ScriptStep

\* the status of the last run is final
Finished == pc = "exited"

\* the sweep of cleanup_parent_dir has read the whole listing of this pod
SweptPod ==
    IF pc = "sweep_return" \/ (pc = "exited" /\ captured > 0)
    THEN pod_dirs[pod_index]
    ELSE NoDir

\* a leaf that passes every gate of the sweep in the current state
Eligible(d) ==
    /\ d \in Tree
    /\ IsLeaf(d)
    /\ exists[d]
    /\ EndsWith(d[3], FuseMountSuffix)
    /\ validate_path_format(PathOf(d), BASE_DIR)
    /\ get_dir_age_days(d) >= AGE_DAYS
    /\ ~mounted[d]
    /\ HoldsNoEntry(d)

\* C1: every directory the script removes holds no entry at the instant of
\* the rmdir call, and an rmdir call on a directory that holds an entry
\* changes neither the directories nor their entries.
C1_RemovesOnlyEmpty ==
    [][/\ \A d \in Tree : (d \in removed' /\ d \notin removed) => HoldsNoEntry(d)
       /\ (RmdirStep /\ ~HoldsNoEntry(sr_dir)) => (exists' = exists /\ entry' = entry)
      ]_vars

C1_Witness ==
    /\ last_rmdir.dir # NoDir
    /\ ~last_rmdir.was_empty
    /\ ~last_rmdir.ok
    /\ exists[last_rmdir.dir]
    /\ entry[last_rmdir.dir] # "none"

\* C2: a run whose census total is below the threshold removes no directory,
\* also when leaves exist that pass every gate.
C2_BelowThresholdRemovesNothing ==
    (pc \notin {"check_prerequisites", "census"} /\ total_subdirs < THRESHOLD)
        => removed = {}

C2_Witness ==
    /\ Finished
    /\ exit_code = 0
    /\ ~DRY_RUN
    /\ total_subdirs < THRESHOLD
    /\ \E d \in Tree : Eligible(d)

\* C3: every directory removed by a run, at any level, is at least AGE_DAYS
\* days old at the moment of its removal.
C3_NeverRemovesYoung == young_removed = {}

\* C4: a directory for which a mount probe answered mounted, or which the
\* emptiness check of safe_remove_dir found non-empty, is not removed in that
\* run, and when it is a leaf it is counted as skipped.
C4_RefusedStaysAndIsSkipped ==
    \A d \in refused :
        /\ d \notin removed
        /\ exists[d]
        /\ IsLeaf(d) => d \in skipped_leaves

C4_Witness ==
    /\ Finished
    /\ ~DRY_RUN
    /\ removed # {}
    /\ \E d \in refused : IsLeaf(d) /\ mounted[d]
    /\ skipped_count > 0

\* C5: when neither /proc/self/mountinfo nor /proc/mounts can be read,
\* is_mounted reports mounted for every directory: no leaf passes the mount
\* gate, and nothing is removed or reported.
C5_FailsClosed ==
    (~mountinfo_ok /\ ~mounts_ok) =>
        /\ pc \notin {"sr_mounted", "sr_empty", "sr_rmdir", "timestamp_dir"}
        /\ removed = {}
        /\ reported = {}

\* C6: no directory that is a mount point at the instant of the rmdir call is
\* removed; the call fails and the directory stays.
C6_MountPointNeverRemoved ==
    [][/\ \A d \in Tree : (d \in removed' /\ d \notin removed) => ~mounted[d]
       /\ (RmdirStep /\ mounted[sr_dir]) => (exists'[sr_dir] /\ sr_dir \notin removed')
      ]_vars

C6_Witness ==
    /\ last_rmdir.dir # NoDir
    /\ last_rmdir.was_mounted
    /\ ~last_rmdir.ok
    /\ exists[last_rmdir.dir]
    /\ last_rmdir.dir \notin refused

\* the candidate leaves of the tree that validate_path_format rejects
RejectedCandidates ==
    {d \in Tree : /\ IsLeaf(d)
                  /\ EndsWith(d[3], FuseMountSuffix)
                  /\ ~validate_path_format(PathOf(d), BASE_DIR)}

\* C7: a candidate leaf that validate_path_format rejects is never removed
\* nor reported, and once the sweep of its pod directory has read the whole
\* listing it is counted as skipped.
C7_RejectedLeafUntouched ==
    \A d \in RejectedCandidates :
        /\ d \notin removed
        /\ d \notin reported
        /\ (SweptPod # NoDir /\ SweptPod[1] = d[1]) => d \in skipped_leaves

C7_Witness ==
    /\ Finished
    /\ ~DRY_RUN
    /\ <<PodP, StampBad, LeafD>> \in RejectedCandidates
    /\ <<PodP, StampBad, LeafD>> \in skipped_leaves
    /\ <<PodP, Stamp1a, LeafD>> \in removed
    /\ exists[<<PodP, StampBad, LeafD>>]

\* C8: in dry-run mode no step of the script changes the filesystem.
C8_DryRunChangesNothing ==
    [][(DRY_RUN /\ ScriptStep) => UNCHANGED fsVars]_vars

C8_Witness ==
    /\ Finished
    /\ DRY_RUN
    /\ reported # {}
    /\ removed = {}
    /\ \A d \in reported : exists[d]

\* C9: with no external activity, the directories a dry run reports are
\* exactly the directories the real run started on the same tree removes, and
\* the deleted and skipped counts of the two runs are the same.
C9_DryRunPredictsRealRun ==
    (run >= 2 /\ Finished /\ prev.finished /\ prev.dry /\ ~DRY_RUN /\ ext_used = 0)
        => /\ prev.reported = removed
           /\ prev.deleted_count = deleted_count
           /\ prev.skipped_count = skipped_count

\* a path lies below the base path
LiesBelow(path, base_path) ==
    /\ StartsWith(path, base_path \o <<Slash>>)
    /\ Len(path) > Len(base_path) + 1

\* C10: validate_path_format answers false for every path that does not lie
\* below the base path.
C10_RejectsPathsOutsideBase ==
    (v_result # "none" /\ ~LiesBelow(v_path, v_base)) => v_result = "invalid"


\* <16 digits>-<8 lowercase alphanumerics>
IsAllocationID(s) ==
    /\ Len(s) = 25
    /\ \A i \in 1..16 : s[i] \in Digits
    /\ s[17] = Dash
    /\ \A i \in 18..25 : s[i] \in LowerAlnum

\* base/<id>/<16 digits>-<8 lowercase alphanumerics>/<name>-fuse-mount
ExactShape(path, base_path) ==
    /\ LiesBelow(path, base_path)
    /\ LET parts == SplitAll(SubSeq(path, Len(base_path) + 2, Len(path)))
       IN  /\ Len(parts) = 3
           /\ parts[1] # <<>>
           /\ IsAllocationID(parts[2])
           /\ EndsWith(parts[3], FuseMountSuffix)

\* C11: validate_path_format accepts exactly the paths of the shape
\* base/<id>/<16 digits>-<8 lowercase alphanumerics>/<name>-fuse-mount.
C11_AcceptsExactlyTheGrammar ==
    v_result # "none" => (v_result = "valid" <=> ExactShape(v_path, v_base))


\* the calls of the allocator that returned a path
Returned == {i \in 1..Len(allocs) : ~allocs[i].result.err}

\* the directory the allocator puts the pod's directory into
BasePrefix(input) == Dir(TrimSuffix(input, <<Slash>>))

\* C12: every path the allocator returns for the base prefix B is accepted by
\* validate_path_format(path, B).
C12_FormatClosure ==
    \A i \in Returned :
        validate_path_format(allocs[i].result.path, BasePrefix(allocs[i].input))

\* the AllocationID segment of the i-th call
SegmentOf(i) == allocs[i].result.elem[2]

Alnum == LowerAlnum \cup
    {"A", "B", "C", "D", "E", "F", "G", "H", "I", "J", "K", "L", "M",
     "N", "O", "P", "Q", "R", "S", "T", "U", "V", "W", "X", "Y", "Z"}

\* \d{16}-[a-zA-Z0-9]{8}
MatchesGeneratedID(s) ==
    /\ Len(s) = 25
    /\ \A k \in 1..16 : s[k] \in Digits
    /\ s[17] = Dash
    /\ \A k \in 18..25 : s[k] \in Alnum

\* the path is dir(input)/identity/<16 digits>-<8 alphanumerics>/base(input),
\* read off the components of the path and of the input
HasShape(path, input, identity) ==
    LET comps == SplitAll(path)
        in_comps == ReadArray(input)
        n == Len(in_comps)
    IN  /\ Len(comps) = n + 2
        /\ SubSeq(comps, 1, n - 1) = SubSeq(in_comps, 1, n - 1)
        /\ comps[n] = identity
        /\ MatchesGeneratedID(comps[n + 1])
        /\ comps[n + 2] = in_comps[n]

\* C14: for an input path with or without a "/" at its end and a pod with the
\* non-empty name N the path returned is dir(P)/N/<16 digits>-<8 alphanumerics>/base(P).
C14_ShapeOfReturnedPath ==
    \A i \in Returned :
        allocs[i].name # <<>> =>
            HasShape(allocs[i].result.path, allocs[i].input, allocs[i].name)

\* the same host path once without and once with the "/" at its end
C14_Witness ==
    \E i, j \in Returned :
        /\ allocs[i].name # <<>>
        /\ allocs[j].name = allocs[i].name
        /\ allocs[j].input = allocs[i].input \o <<Slash>>
        /\ SplitAll(allocs[j].result.path)[3] = allocs[i].name
        /\ Len(allocs[j].result.path) = Len(allocs[i].result.path)

\* the component of the returned path that names the pod
IdentityOf(i) ==
    LET comps == SplitAll(allocs[i].result.path)
    IN  comps[Len(comps) - 2]

\* C15: the identity segment of the returned path is the pod's name when the
\* name is non-empty, otherwise the generate-name prefix followed by
\* "--generate-name".
C15_IdentitySegment ==
    \A i \in Returned :
        /\ allocs[i].name # <<>> => IdentityOf(i) = allocs[i].name
        /\ allocs[i].name = <<>> =>
               IdentityOf(i) = allocs[i].generate_name \o GenerateNameSuffix
        /\ allocs[i].result.elem[1] = IdentityOf(i)

\* a pod without a name, created from the generate-name "g"
C15_Witness ==
    \E i \in Returned :
        /\ allocs[i].name = <<>>
        /\ allocs[i].generate_name = <<"g">>
        /\ IdentityOf(i) =
               <<"g", "-", "-", "g", "e", "n", "e", "r", "a", "t", "e", "-", "n", "a", "m", "e">>


\* C16: when the base directory does not exist, the caller is not root, or
\* one of find, date, stat, rmdir is not available, the script exits with a
\* status other than 0 before the census: it lists no directory and removes
\* none.
C16_PrerequisitesStopTheRun ==
    (euid # 0 \/ ~base_is_dir \/ ~commands_ok) =>
        /\ pc \in {"check_prerequisites", "exited", "killed"}
        /\ pc = "exited" => exit_code # 0
        /\ pod_dirs = <<>>
        /\ find_out = <<>>
        /\ removed = {}
        /\ reported = {}
        /\ \A d \in Tree : exists[d] = base_is_dir

\* a caller who is not root, on a tree with a leaf the sweep would remove
C16_Witness ==
    /\ euid # 0
    /\ base_is_dir /\ commands_ok
    /\ pc = "exited"
    /\ exit_code = 1
    /\ total_subdirs = 0
    /\ \E d \in Tree : Eligible(d)


\* a leaf that find -name "*-fuse-mount" lists
Candidate(d) == d \in Tree /\ IsLeaf(d) /\ exists[d] /\ EndsWith(d[3], FuseMountSuffix)

\* C17: when the rmdir of a leaf fails, the leaf is counted as skipped and
\* stays on disk, and every other candidate leaf of the run is still examined:
\* at the end of the run it is removed or counted as skipped.
C17_FailedRemovalIsNotFatal ==
    (Finished /\ ~DRY_RUN /\ \E d \in rmdir_failed : IsLeaf(d)) =>
        /\ \A d \in rmdir_failed : IsLeaf(d) => (d \in skipped_leaves /\ exists[d])
        /\ \A d \in Tree : Candidate(d) => d \in skipped_leaves


\* a leaf that passes every gate on the tree as it is before a run without
\* external activity: the modification time of a leaf does not change in
\* such a run, and no leaf is mounted or holds a file
EligibleAtStart(d) ==
    /\ d \in Tree
    /\ IsLeaf(d)
    /\ EndsWith(d[3], FuseMountSuffix)
    /\ validate_path_format(PathOf(d), BASE_DIR)
    /\ get_dir_age_days(d) >= AGE_DAYS

\* the directories below d on the full tree
Below(d) == {c \in Tree : Len(c) = Len(d) + 1 /\ Parent(c) = d}

\* what one complete run without external activity is to remove from the
\* full tree: the eligible leaves, the timestamp directories they leave
\* empty, and the pod directories those leave empty
ToRemove(d) ==
    IF IsLeaf(d) THEN EligibleAtStart(d)
    ELSE IF IsStamp(d) THEN \A c \in Below(d) : EligibleAtStart(c)
    ELSE \A t \in Below(d) : \A c \in Below(t) : EligibleAtStart(c)

\* C18: a real run without external activity on a tree at or above the
\* threshold removes exactly the eligible leaves and the timestamp
\* directories and pod directories they leave empty, and ends with the
\* report of the count after the run.
C18_FullRunAccounting ==
    (Finished /\ run = 1 /\ ~DRY_RUN /\ ext_used = 0 /\ pod_dirs # <<>>
        /\ total_subdirs >= THRESHOLD) =>
        /\ exit_code = 0
        /\ \A d \in Tree : d \in removed <=> ToRemove(d)


\* the number of timestamp directories of the full tree
SubdirsAtStart == Cardinality({d \in Tree : IsStamp(d)})

\* the pod directory the script sweeps: the first one find lists
FirstPod == IF reverse_order THEN PodQ ELSE PodP

\* what one uninterrupted real run of the script removes from the full tree
\* when no other process is active: below the first pod directory, the
\* eligible leaves and the timestamp directories they leave empty
RemovedByOneRun(d) ==
    /\ ~PrerequisiteMissing
    /\ SubdirsAtStart >= THRESHOLD
    /\ d[1] = FirstPod
    /\ \/ IsLeaf(d) /\ EligibleAtStart(d)
       \/ IsStamp(d) /\ \A c \in Below(d) : EligibleAtStart(c)

\* C19: when a real run is interrupted and a complete run follows on the tree
\* it left, with the same clock, mount state and configuration and no
\* external activity, the final tree is the tree one uninterrupted run
\* produces from the original tree.
C19_Restartable ==
    (run = 2 /\ prev.interrupted /\ Finished /\ ~DRY_RUN /\ ext_used = 0) =>
        \A d \in Tree : exists[d] <=> (base_is_dir /\ ~RemovedByOneRun(d))

\* C20: a real run started right after a completed real run, with the same
\* clock, mount state and configuration and no external activity, removes no
\* directory.
C20_SecondRunRemovesNothing ==
    (run >= 2 /\ prev.finished /\ ~prev.dry /\ ~DRY_RUN /\ ext_used = 0) =>
        /\ removed = {}
        /\ pc # "sr_rmdir"

\* the first run removed a leaf, the second run swept the same pod directory
\* again and found nothing to remove
C20_Witness ==
    /\ run = 2
    /\ prev.finished /\ ~prev.dry /\ prev.removed # {}
    /\ ~DRY_RUN
    /\ ext_used = 0
    /\ Finished
    /\ captured > 0
    /\ skipped_count > 0
    /\ removed = {}


\* the census has counted the subdirectories of this run
Counted == pod_dirs # <<>>

\* C21: a run whose census counts exactly as many subdirectories as the
\* threshold removes nothing and reports nothing as removable.
C21_AtThresholdRemovesNothing ==
    (Counted /\ total_subdirs = THRESHOLD) => (removed = {} /\ reported = {})

\* C22: the script removes leaves only: no timestamp directory and no pod
\* directory is removed or reported as removable by any run.
C22_RemovesLeavesOnly ==
    \A d \in removed \cup reported : IsLeaf(d)

\* C23: a run that passes the threshold gate sweeps every pod directory of
\* the census and ends with status 0, after the cleanup of the pod
\* directories and the count after the run.
C23_SweepsEveryPodDirectory ==
    (Finished /\ Counted /\ total_subdirs >= THRESHOLD) =>
        /\ pod_index > Len(pod_dirs)
        /\ exit_code = 0


\* safe_remove_dir is at work on a timestamp directory
HandlingStamp == pc \in {"sr_mounted", "sr_empty", "sr_rmdir"} /\ IsStamp(sr_dir)

\* the leaf passed the format gate and was removed, or reported in a dry run
RemovedValidLeaf(l) ==
    /\ IsLeaf(l)
    /\ l \in removed \cup reported
    /\ validate_path_format(PathOf(l), BASE_DIR)

\* C24: a timestamp directory is handed to safe_remove_dir, and removed, only
\* right after the removal of a format-valid leaf directly below it, and
\* only when it is empty; a timestamp directory with a leaf that was skipped
\* is neither handed to safe_remove_dir nor removed in that run.
C24_TimestampDirAfterItsLeaf ==
    /\ HandlingStamp =>
           /\ sr_dir = Parent(fuse_mount_dir)
           /\ RemovedValidLeaf(fuse_mount_dir)
           /\ ~DRY_RUN => (last_rmdir.dir = fuse_mount_dir /\ last_rmdir.ok)
           /\ \A l \in skipped_leaves : Parent(l) # sr_dir
    /\ \A t \in removed \cup reported :
           IsStamp(t) =>
               /\ \E l \in Tree : RemovedValidLeaf(l) /\ Parent(l) = t
               /\ \A l \in skipped_leaves : Parent(l) # t
               /\ Children(t) = {}

\* a timestamp directory was removed after its two leaves, and the leaf of
\* another timestamp directory was skipped
C24_Witness ==
    /\ Finished
    /\ \E t \in removed : IsStamp(t)
    /\ \E l \in skipped_leaves : exists[Parent(l)] /\ Parent(l) \notin refused


\* C25: every rmdir call is made by safe_remove_dir on the directory it was
\* called with, right after its emptiness check found that directory empty,
\* which follows its mount probe answering not mounted for that directory;
\* for a leaf safe_remove_dir is entered only from the mount gate of the
\* sweep, whose own probe answered not mounted.
C25_ProbesBeforeEveryRmdir ==
    [][(ScriptStep /\ pc' # "killed") =>
        /\ (\E d \in Tree : exists[d] /\ ~exists'[d]) => pc = "sr_rmdir"
        /\ pc = "sr_rmdir" => last_rmdir'.dir = sr_dir
        /\ (pc' = "sr_rmdir" /\ pc # "sr_rmdir") =>
               (pc = "sr_empty" /\ sr_dir' = sr_dir /\ HoldsNoEntry(sr_dir))
        /\ (pc' = "sr_empty" /\ pc # "sr_empty") =>
               (pc = "sr_mounted" /\ sr_dir' = sr_dir /\ ~is_mounted(sr_dir))
        /\ (pc' = "sr_mounted" /\ pc # "sr_mounted" /\ IsLeaf(sr_dir')) =>
               (pc = "mount_gate" /\ sr_dir' = fuse_mount_dir
                   /\ ~is_mounted(fuse_mount_dir))
    ]_vars

\* rmdir has removed a timestamp directory that was empty and not mounted
C25_Witness ==
    /\ last_rmdir.dir # NoDir
    /\ IsStamp(last_rmdir.dir)
    /\ last_rmdir.ok
    /\ last_rmdir.was_empty
    /\ ~last_rmdir.was_mounted
    /\ ~exists[last_rmdir.dir]


\* the directories a run may remove: the leaves named <name>-fuse-mount, the
\* timestamp directories above such a leaf, and the pod directories of the
\* census
Confined(d) ==
    \/ IsLeaf(d) /\ d[3] \in {LeafD, LeafE}
    \/ IsStamp(d) /\ \E l \in Tree : IsLeaf(l) /\ Parent(l) = d /\ l[3] \in {LeafD, LeafE}
    \/ IsPod(d) /\ \E i \in 1..Len(pod_dirs) : pod_dirs[i] = d

Enumerated(pod_dir) ==
    {d \in Tree : /\ IsLeaf(d)
                  /\ d[1] = pod_dir[1]
                  /\ d[3] \in {LeafD, LeafE}
                  /\ (exists[d] \/ d \in removed)}

\* C27: in the sweep of one pod directory every listed leaf is counted once:
\* skipped_count is the number of leaves skipped, deleted_count the number of
\* leaves removed (reported, in a dry run), no leaf is both, and at the end
\* of the sweep the two counts add up to the number of leaves listed.
C27_EveryLeafCountedOnce ==
    /\ skipped_count = Cardinality(skipped_leaves)
    /\ deleted_count = Cardinality({l \in removed \cup reported : IsLeaf(l)})
    /\ skipped_leaves \cap (removed \cup reported) = {}
    /\ SweptPod # NoDir =>
           /\ find_out = <<>>
           /\ deleted_count + skipped_count = Cardinality(Enumerated(SweptPod))

\* a sweep with a removed leaf, a leaf skipped for its format and a leaf
\* skipped because rmdir failed
C27_Witness ==
    /\ SweptPod # NoDir
    /\ deleted_count = 1
    /\ skipped_count = 2
    /\ \E l \in skipped_leaves : ~validate_path_format(PathOf(l), BASE_DIR)
    /\ \E l \in skipped_leaves : l \in rmdir_failed

====
